---- MODULE Spec2Model ----
(***************************************************************************)
(* Model of the Discord bot in src/esquie_bot/main.py.                     *)
(*                                                                         *)
(* Spec      the request serializer: on_message handlers interleaving at   *)
(*           their awaits around processing_lock, current_processing_user  *)
(*           and waiting_messages.                                         *)
(* DrainSpec the serializer with one more message and no failures.         *)
(* FaultSpec the serializer without send failures, where the log call      *)
(*           after the completion may raise.                               *)
(* HistSpec  the reply-chain walk of build_conversation_history, one       *)
(*           action per loop iteration, over bounded reply chains.         *)
(* SplitSpec the splitter of long responses in the impl, one action per    *)
(*           loop iteration, over texts of real length.                    *)
(* RefSpec   the content taken from a fetched referenced message and the   *)
(*           context built from it, over messages with explicit features.  *)
(* DeliverSpec the delivery of a response, short or in chunks, where every *)
(*           send call can fail.                                           *)
(* ReactSpec on_reaction_add, for one reaction event.                       *)
(* ClassSpec the trigger classifier of on_message and the content          *)
(*           normalization of the impl, for one message with explicit      *)
(*           features, arriving in an idle or a busy serializer.           *)
(*                                                                         *)
(* A state of Spec is a point where every handler is suspended at an await *)
(* (or has returned); an action is the code a handler runs between two     *)
(* awaits.  Consecutive awaits with no access to the shared state between  *)
(* them are one suspension.                                                *)
(***************************************************************************)
EXTENDS Integers, Sequences, FiniteSets, TLC

\* ---------------------------------------------------------------- bounds
MaxMsgs == 3
MaxChain == 12
MaxShort == 3
MaxContent == 2
MaxWs == 2
MaxChunks == 3

\* ------------------------------------------------------------- constants
Users == {"A", "B"}
None == "None"
\* Handler slots: one per message event; Spec delivers MaxMsgs events,
\* DrainSpec one more.
Msgs == 1..(MaxMsgs + 1)

TimeoutApology == "Sorry, the AI is taking too long to respond. Please try again!"
ConnectApology == "Sorry, I'm having trouble connecting to my AI brain right now. Please try again later!"
ParseApology == "Oops! I got a response but couldn't understand it. Please try again!"
OtherApology == "Oops! Something went wrong. Please try again!"
EmptyApology == "I apologize, but I couldn't generate a response right now. Please try again!"
ModelText == "generated text"

\* build_conversation_history(message, max_depth=10)
MaxDepth == 10
\* The two forms of the bot's mention token matched by r'<@!?{id}>'.
MentionTokens == {"<@BOT>", "<@!BOT>"}

\* Outcomes of the remote call made by get_ai_response: a completion, a
\* completion whose text is empty once stripped, no answer within 60 s, a
\* connection failure, an HTTP error status, a body that is not JSON, a
\* JSON body without the expected keys, a JSON body of another shape.
ApiOutcomes == {"ok", "empty", "timeout", "network", "http", "badjson",
                "parse", "other"}

VARIABLES
    arrived,    \* number of on_message events delivered so far; event m is message m
    author,     \* message.author.id of each delivered message
    pc,         \* where the handler of message h is suspended
    req,        \* the message handler h passed to process_user_message (0: none)
    locked,     \* processing_lock._locked
    waiters,    \* processing_lock._waiters, as the handlers blocked in acquire()
    current,    \* current_processing_user
    waiting,    \* waiting_messages: sequence of <<message, waiting_msg>>
    api,        \* outcome of the completion call made by handler h ("": none yet)
    resp,       \* ai_response, local to handler h
    processed,  \* history: messages for which _process_user_message_impl began
    thinking_message, \* thinking_message of the request handler h runs
    attempts,   \* history: completion calls made for the request h runs
    trigger,    \* HistSpec: kind of the triggering message ("mention" or "plain")
    chain,      \* HistSpec: the ancestors of the triggering message, nearest first
    failAt,     \* HistSpec: index of the first ancestor whose fetch fails (0: none)
    cur,        \* HistSpec: current_msg (0: the triggering message, i: ancestor i)
    depth,      \* HistSpec: depth
    history,    \* HistSpec: history
    fetches,    \* HistSpec: number of fetch_message calls made
    wpc,        \* HistSpec: "off", "loop", "done" or "raised"
    cms,        \* ClassSpec: the message whose features are in msg (0: none)
    msg,        \* ClassSpec: the features of message cms
    refmsg,     \* ClassSpec: referenced_msg of on_message ("none": None)
    implRef,    \* ClassSpec: referenced_msg of the impl ("none": None)
    prompt,     \* ClassSpec: content as passed to get_ai_response (<<>>: not yet)
    ipc,        \* ClassSpec: the next step of the impl for message cms
    calls,      \* ClassSpec: history: the sends and remote calls of that impl
    text,       \* SplitSpec: ai_response, a sequence of characters
    remaining,  \* SplitSpec: remaining
    chunks,     \* SplitSpec: chunks
    spc,        \* SplitSpec: "off", "loop" or "done"
    rmsg,       \* RefSpec: the features of the fetched referenced message
    refContent, \* RefSpec: referenced_content, a sequence of parts
    refContext, \* RefSpec: reference_context, a sequence of parts
    rpc,        \* RefSpec: "off", "extract", "context" or "done"
    dkind,      \* DeliverSpec: "short" or "long" response ("off": none)
    dbodies,    \* DeliverSpec: len(ai_response), or the lengths of the chunks
    dchunk,     \* DeliverSpec: i, the number of the chunk being sent
    last_message, \* DeliverSpec: last_message of the long delivery
    sends,      \* DeliverSpec: history: the send calls made, with results
    dpc,        \* DeliverSpec: the next send call, "done" or "raised"
    rx,         \* ReactSpec: the reaction event and the message reacted to
    kpc         \* ReactSpec: where on_reaction_add is suspended or ended

svars == <<arrived, author, pc, req, locked, waiters, current, waiting, api,
           resp, attempts, processed, thinking_message>>
hvars == <<trigger, chain, failAt, cur, depth, history, fetches, wpc>>
cvars == <<cms, msg, refmsg, implRef, prompt, ipc, calls>>
pvars == <<text, remaining, chunks, spc>>
rvars == <<rmsg, refContent, refContext, rpc>>
dvars == <<dkind, dbodies, dchunk, last_message, sends, dpc>>
kvars == <<rx, kpc>>
xvars == <<rvars, dvars, kvars>>
nonSer == <<hvars, cvars, pvars, xvars>>
nonHist == <<svars, cvars, pvars, xvars>>
vars == <<arrived, author, pc, req, locked, waiters, current, waiting, api,
          resp, attempts, processed, thinking_message, trigger, chain, failAt, cur, depth, history,
          fetches, wpc, cms, msg, refmsg, implRef, prompt, ipc, calls, text, remaining,
          chunks, spc, rmsg, refContent, refContext, rpc, dkind, dbodies,
          dchunk, last_message, sends, dpc, rx, kpc>>

\* ------------------------------------------------------------ the lock
\* asyncio.Lock.acquire takes the lock without suspending only when it is
\* free and nobody is queued for it; otherwise the caller joins the waiters.
\* (Variant that forgets the holder: a caller takes a held lock.)
CanAcquireIgnoringHolder(lk, ws) == ws = <<>>
CanAcquire(lk, ws) == ~lk /\ ws = <<>>

\* The exception raised inside the try block of get_ai_response for each
\* outcome: by requests.post (line 403), raise_for_status (line 404),
\* response.json() or the subscripts and .strip() of line 406.
ExceptionOf(outcome) ==
    CASE outcome = "timeout" -> "Timeout"
      [] outcome = "network" -> "ConnectionError"
      [] outcome = "http" -> "HTTPError"
      [] outcome = "badjson" -> "JSONDecodeError"
      [] outcome = "parse" -> "KeyError"
      [] outcome = "other" -> "IndexError"
      [] OTHER -> None

\* The classes an except clause naming them catches, for each exception
\* class (requests.exceptions.JSONDecodeError derives from both
\* RequestException and ValueError).
ClassesOf(exc) ==
    CASE exc = "Timeout" -> {"Timeout", "RequestException", "Exception"}
      [] exc = "ConnectionError" ->
            {"ConnectionError", "RequestException", "Exception"}
      [] exc = "HTTPError" -> {"HTTPError", "RequestException", "Exception"}
      [] exc = "JSONDecodeError" ->
            {"JSONDecodeError", "RequestException", "ValueError", "Exception"}
      [] exc = "KeyError" -> {"KeyError", "Exception"}
      [] OTHER -> {exc, "Exception"}

\* The except clauses of get_ai_response in source order (lines 415-426):
\* the classes named and the string returned.
\* (Variant without the final catch-all clause.)
ExceptClausesNoCatchAll ==
    << <<{"Timeout"}, TimeoutApology>>,
       <<{"RequestException"}, ConnectApology>>,
       <<{"KeyError", "ValueError"}, ParseApology>> >>
ExceptClauses ==
    << <<{"Timeout"}, TimeoutApology>>,
       <<{"RequestException"}, ConnectApology>>,
       <<{"KeyError", "ValueError"}, ParseApology>>,
       <<{"Exception"}, OtherApology>> >>

\* Marks an exception that leaves get_ai_response.
Propagated == "<raised>"

\* get_ai_response: the text returned for each outcome of the remote call.
\* An exception is handled by the first clause that names one of its classes.
GetAiResponse(outcome) ==
    IF ExceptionOf(outcome) = None
    THEN IF outcome = "ok" THEN ModelText ELSE ""
    ELSE LET matching == {i \in 1..Len(ExceptClauses) :
                            ExceptClauses[i][1] \cap
                              ClassesOf(ExceptionOf(outcome)) # {}}
         IN  IF matching = {} THEN Propagated
             ELSE ExceptClauses[CHOOSE i \in matching :
                                  \A j \in matching : i <= j][2]

\* The wait notice of message m, later passed as thinking_message.
NoticeOf(m) == <<"notice", m>>
\* thinking_message=None, the default of lines 630 and 645.
NoThinking == <<"none", 0>>
\* The message returned by message.reply("Thinking...") for request m.
ThinkingOf(m) == <<"thinking", m>>
\* Line 788: a thinking message is sent only when none was passed in.
\* (Variant: a thinking message is sent for every request.)
NeedsThinkingAlways(tm) == TRUE
NeedsThinking(tm) == tm = NoThinking

\* Handler h is inside _process_user_message_impl.
InImpl(h) == pc[h] \in {"thinking", "complete", "deliver"}
\* Handler h has returned: at line 1003, at line 1012, at the end of the try
\* block, or at the end of the except block.
Final == {"rejected", "queued", "done", "failed"}
Returned(h) == pc[h] \in Final \cup {"idle"}

HistIdle ==
    /\ trigger = "plain" /\ chain = <<>> /\ failAt = 0 /\ cur = 0 /\ depth = 0
    /\ history = <<>> /\ fetches = 0 /\ wpc = "off"

SerIdle ==
    /\ arrived = 0
    /\ author = [m \in Msgs |-> None]
    /\ pc = [m \in Msgs |-> "idle"]
    /\ req = [m \in Msgs |-> 0]
    /\ locked = FALSE
    /\ waiters = <<>>
    /\ current = None
    /\ waiting = <<>>
    /\ api = [m \in Msgs |-> ""]
    /\ resp = [m \in Msgs |-> ""]
    /\ attempts = [m \in Msgs |-> 0]
    /\ processed = {}
    /\ thinking_message = [m \in Msgs |-> NoThinking]

\* No message has been classified.
NoMsg == [byBot |-> FALSE, content |-> <<>>, attach |-> FALSE,
          embeds |-> FALSE, mention |-> FALSE, ref |-> "none"]
ClassIdle ==
    /\ cms = 0 /\ msg = NoMsg /\ refmsg = "none" /\ implRef = "none"
    /\ prompt = <<>> /\ ipc = "off" /\ calls = <<>>

SplitIdle == text = <<>> /\ remaining = <<>> /\ chunks = <<>> /\ spc = "off"

\* No referenced message has been fetched.
NoRef == [bot |-> FALSE, content |-> <<>>, embeds |-> "none",
          attach |-> FALSE, stickers |-> FALSE, system |-> FALSE]
RefIdle ==
    /\ rmsg = NoRef /\ refContent = <<>> /\ refContext = <<>> /\ rpc = "off"

\* The message a request came in, before any delivery.
Request == <<"request", 0>>
DeliverIdle ==
    /\ dkind = "off" /\ dbodies = <<>> /\ dchunk = 0
    /\ last_message = Request /\ sends = <<>> /\ dpc = "off"

\* No reaction event has been delivered.
NoReaction == [user |-> None, emoji |-> "", author |-> None,
               image |-> FALSE, ref |-> None]
ReactIdle == rx = NoReaction /\ kpc = "off"

XIdle == RefIdle /\ DeliverIdle /\ ReactIdle

Init == SerIdle /\ HistIdle /\ ClassIdle /\ SplitIdle /\ XIdle

\* process_user_message(m, tm) called by handler h, up to its first
\* suspension.  lk, ws, cu: the lock, its waiters and current_processing_user
\* as the call finds them; pcB, au: pc and author as the caller leaves them.
\* A request that comes with its notice (line 1020) skips the thinking
\* message and suspends at the completion call.
Dispatch(h, m, tm, lk, ws, cu, pcB, au) ==
    /\ req' = [req EXCEPT ![h] = m]
    /\ thinking_message' = [thinking_message EXCEPT ![h] = tm]
    /\ IF CanAcquire(lk, ws)
       THEN /\ locked' = TRUE
            /\ waiters' = ws
            /\ current' = au[m]
            /\ pc' = [pcB EXCEPT ![h] = IF NeedsThinking(tm) THEN "thinking"
                                        ELSE "complete"]
            /\ processed' = processed \cup {m}
       ELSE /\ locked' = lk
            /\ waiters' = Append(ws, h)
            /\ current' = cu
            /\ pc' = [pcB EXCEPT ![h] = "lockwait"]
            /\ processed' = processed

\* on_message lines 1007-1014: the busy test and what follows it up to the
\* next suspension.
Busy(h, au) == locked /\ current # au[h]
Gate(h, pcB, au) ==
    IF Busy(h, au)
    THEN /\ pc' = [pcB EXCEPT ![h] = "notice"]
         /\ UNCHANGED <<req, locked, waiters, current, processed,
                             thinking_message>>
    ELSE Dispatch(h, h, NoThinking, locked, waiters, current, pcB, au)

\* A message event is delivered.  hasRef: the message has a reply reference,
\* so the handler suspends at fetch_message before it classifies; respond:
\* the value of should_respond.
ArriveStep(n, u, hasRef, respond) ==
    /\ arrived < n
    /\ arrived' = arrived + 1
    /\ author' = [author EXCEPT ![arrived + 1] = u]
    /\ IF hasRef
       THEN /\ pc' = [pc EXCEPT ![arrived + 1] = "fetch"]
            /\ UNCHANGED <<req, locked, waiters, current, processed,
                             thinking_message>>
       ELSE IF respond
            THEN Gate(arrived + 1, pc, author')
            ELSE /\ pc' = [pc EXCEPT ![arrived + 1] = "rejected"]
                 /\ UNCHANGED <<req, locked, waiters, current, processed,
                             thinking_message>>
    /\ UNCHANGED <<waiting, api, resp, attempts>>

ArriveUpTo(n, u, hasRef, respond) ==
    ArriveStep(n, u, hasRef, respond) /\ UNCHANGED nonSer
Arrive(u, hasRef, respond) == ArriveUpTo(MaxMsgs, u, hasRef, respond)

\* fetch_message of the referenced message returns (or fails: caught).
FetchStep(h, respond) ==
    /\ pc[h] = "fetch"
    /\ IF respond
       THEN Gate(h, pc, author)
       ELSE /\ pc' = [pc EXCEPT ![h] = "rejected"]
            /\ UNCHANGED <<req, locked, waiters, current, processed,
                             thinking_message>>
    /\ UNCHANGED <<arrived, author, waiting, api, resp, attempts>>

FetchReturn(h, respond) == FetchStep(h, respond) /\ UNCHANGED nonSer

\* The wait notice was sent: lines 1011-1012.
NoticeSent(h) ==
    /\ pc[h] = "notice"
    /\ waiting' = Append(waiting, <<h, NoticeOf(h)>>)
    /\ pc' = [pc EXCEPT ![h] = "queued"]
    /\ UNCHANGED <<arrived, author, req, locked, waiters, current, api, resp, attempts,
                   processed, thinking_message>>
    /\ UNCHANGED nonSer

\* message.reply of the wait notice raised: lines 1022-1031.
NoticeFail(h) ==
    /\ pc[h] = "notice"
    /\ current' = IF locked THEN None ELSE current
    /\ pc' = [pc EXCEPT ![h] = "apology"]
    /\ UNCHANGED <<arrived, author, req, locked, waiters, waiting, api, resp, attempts,
                   processed, thinking_message>>
    /\ UNCHANGED nonSer

\* A handler queued in acquire() was woken by a release and takes the lock.
LockResume(h) ==
    /\ pc[h] = "lockwait"
    /\ ~locked
    /\ waiters # <<>> /\ Head(waiters) = h
    /\ locked' = TRUE
    /\ waiters' = Tail(waiters)
    /\ current' = author[req[h]]
    /\ pc' = [pc EXCEPT ![h] = IF NeedsThinking(thinking_message[h])
                                THEN "thinking" ELSE "complete"]
    /\ processed' = processed \cup {req[h]}
    /\ UNCHANGED <<arrived, author, req, waiting, api, resp, attempts, thinking_message>>
    /\ UNCHANGED nonSer

\* The thinking message was sent: line 789.
ThinkingStep(h) ==
    /\ pc[h] = "thinking"
    /\ thinking_message' = [thinking_message EXCEPT ![h] = ThinkingOf(req[h])]
    /\ pc' = [pc EXCEPT ![h] = "complete"]
    /\ UNCHANGED <<arrived, author, req, locked, waiters, current, waiting,
                   api, resp, attempts, processed>>

ThinkingSent(h) == ThinkingStep(h) /\ UNCHANGED nonSer

\* The lock after process_user_message is left by an exception: the finally
\* block and the exit of "async with" run on every path (lines 635-642).
\* (Variant without the cleanup on the exception path.)
LockAfterRaiseNoFinally(lk) == lk
LockAfterRaise(lk) == FALSE

\* Lines 792-798: the impl goes on to the delivery after the one call of
\* get_ai_response, whatever it returned.
\* (Variant that calls again after a timeout.)
NextAfterApiRetry(outcome) ==
    IF outcome = "timeout" THEN "complete" ELSE "deliver"
NextAfterApi(outcome) == "deliver"

\* The completion call returned: lines 792-796.  The call is not inside a
\* try block of the impl: an exception leaving get_ai_response would leave
\* the impl as well.
ApiReturn(h, outcome) ==
    /\ pc[h] = "complete"
    /\ api' = [api EXCEPT ![h] = outcome]
    /\ attempts' = [attempts EXCEPT ![h] = @ + 1]
    /\ IF GetAiResponse(outcome) = Propagated
       THEN /\ resp' = resp
            /\ locked' = LockAfterRaise(locked)
            /\ current' = None
            /\ thinking_message' = [thinking_message EXCEPT ![h] = NoThinking]
            /\ pc' = [pc EXCEPT ![h] = "apology"]
       ELSE /\ resp' = [resp EXCEPT ![h] =
                         IF GetAiResponse(outcome) = "" THEN EmptyApology
                         ELSE GetAiResponse(outcome)]
            /\ pc' = [pc EXCEPT ![h] = NextAfterApi(outcome)]
            /\ UNCHANGED <<locked, current, thinking_message>>
    /\ UNCHANGED <<arrived, author, req, waiters, waiting, processed>>
    /\ UNCHANGED nonSer

\* Line 1018: waiting_messages.pop(0) removes the entry it returns.
\* (Variant that leaves the entry in the list.)
AfterPopKeeps(w) == w
AfterPop(w) == Tail(w)

\* Delivery ended (every delivery error is caught), the impl returns, the
\* cleanup runs and on_message goes on to lines 1016-1020: after its own
\* request (req[h] = h) the handler pops the head of the waiting list, after
\* a popped request it returns.
EndNormal(h) ==
    /\ pc[h] = "deliver"
    /\ api' = [api EXCEPT ![h] = ""]
    /\ attempts' = [attempts EXCEPT ![h] = 0]
    /\ resp' = [resp EXCEPT ![h] = ""]
    /\ IF req[h] = h /\ waiting # <<>>
       THEN /\ waiting' = AfterPop(waiting)
            /\ Dispatch(h, Head(waiting)[1], Head(waiting)[2], FALSE, waiters,
                        None, pc, author)
       ELSE /\ waiting' = waiting
            /\ locked' = FALSE
            /\ current' = None
            /\ pc' = [pc EXCEPT ![h] = "done"]
            /\ thinking_message' = [thinking_message EXCEPT ![h] = NoThinking]
            /\ UNCHANGED <<req, waiters, processed>>
    /\ UNCHANGED <<arrived, author>>
    /\ UNCHANGED nonSer

\* message.reply of the thinking message raised: the impl raises, the cleanup
\* runs, and the except block of on_message (lines 1022-1031) finds the lock
\* released.
EndRaise(h) ==
    /\ pc[h] = "thinking"
    /\ locked' = LockAfterRaise(locked)
    /\ current' = None
    /\ thinking_message' = [thinking_message EXCEPT ![h] = NoThinking]
    /\ pc' = [pc EXCEPT ![h] = "apology"]
    /\ UNCHANGED <<arrived, author, req, waiters, waiting, api, resp, attempts,
                   processed>>
    /\ UNCHANGED nonSer

\* The apology reply returned or failed (swallowed): lines 1030-1033.
ApologyDone(h) ==
    /\ pc[h] = "apology"
    /\ pc' = [pc EXCEPT ![h] = "failed"]
    /\ UNCHANGED <<arrived, author, req, locked, waiters, current, waiting,
                   api, resp, attempts, processed, thinking_message>>
    /\ UNCHANGED nonSer

Next ==
    \/ \E u \in Users, hasRef \in BOOLEAN, respond \in BOOLEAN :
          Arrive(u, hasRef, respond)
    \/ \E h \in Msgs, respond \in BOOLEAN : FetchReturn(h, respond)
    \/ \E h \in Msgs : NoticeSent(h)
    \/ \E h \in Msgs : NoticeFail(h)
    \/ \E h \in Msgs : LockResume(h)
    \/ \E h \in Msgs : ThinkingSent(h)
    \/ \E h \in Msgs, outcome \in ApiOutcomes : ApiReturn(h, outcome)
    \/ \E h \in Msgs : EndNormal(h)
    \/ \E h \in Msgs : EndRaise(h)
    \/ \E h \in Msgs : ApologyDone(h)

Spec == Init /\ [][Next]_vars

\* The serializer with one more event, where every message is a mention
\* without a reply reference and no send and no completion call fails.
DrainNext ==
    \/ \E u \in Users : ArriveUpTo(MaxMsgs + 1, u, FALSE, TRUE)
    \/ \E h \in Msgs : NoticeSent(h)
    \/ \E h \in Msgs : LockResume(h)
    \/ \E h \in Msgs : ThinkingSent(h)
    \/ \E h \in Msgs : ApiReturn(h, "ok")
    \/ \E h \in Msgs : EndNormal(h)

DrainSpec == Init /\ [][DrainNext]_vars

\* The completion call returned a text and log() of line 798 raised: print
\* raises UnicodeEncodeError for a text the encoding of sys.stdout cannot
\* encode, sys.stdout.flush raises OSError on a broken stream (lines 22-24).
\* The call is outside every try block of the impl: the impl raises, the
\* cleanup runs and on_message enters its except block.
LogRaise(h) ==
    /\ pc[h] = "complete"
    /\ api' = [api EXCEPT ![h] = "ok"]
    /\ attempts' = [attempts EXCEPT ![h] = @ + 1]
    /\ locked' = LockAfterRaise(locked)
    /\ current' = None
    /\ thinking_message' = [thinking_message EXCEPT ![h] = NoThinking]
    /\ pc' = [pc EXCEPT ![h] = "apology"]
    /\ UNCHANGED <<arrived, author, req, waiters, waiting, resp, processed>>
    /\ UNCHANGED nonSer

\* Line 1031: the message the generic apology replies to, in the handler of
\* message h.
ApologyTarget(h) == h

\* The serializer where every message is a mention without a reply
\* reference, every send succeeds and the completion call returns a text,
\* on a process whose standard output may fail.
FaultNext ==
    \/ \E u \in Users : ArriveUpTo(MaxMsgs, u, FALSE, TRUE)
    \/ \E h \in Msgs : NoticeSent(h)
    \/ \E h \in Msgs : LockResume(h)
    \/ \E h \in Msgs : ThinkingSent(h)
    \/ \E h \in Msgs : ApiReturn(h, "ok")
    \/ \E h \in Msgs : LogRaise(h)
    \/ \E h \in Msgs : EndNormal(h)
    \/ \E h \in Msgs : ApologyDone(h)

FaultSpec == Init /\ [][FaultNext]_vars

\* ------------------------------------------- classifier and content
\* message.content is a sequence of words separated by single spaces.  The
\* vocabulary has the two forms of the bot's mention token, the two
\* broadcast tokens, words of two of the explanation keywords ('explain' and
\* 'what is'; the other keywords of lines 492-497 are lowercase word
\* sequences of the same kind), one of them in upper case, and a one-letter
\* and a two-letter word.  The empty word is what re.sub leaves of a mention
\* token.
BotUser == "BOT"
Words == {"<@BOT>", "<@!BOT>", "@everyone", "@here", "explain", "EXPLAIN",
          "what", "is", "k", "kk"}
Contents == UNION {[1..n -> Words] : n \in 0..MaxContent}
RefKinds == {"none", "self", "otherbot", "user"}
Messages == [byBot : BOOLEAN, content : Contents, attach : BOOLEAN,
             embeds : BOOLEAN, mention : BOOLEAN, ref : RefKinds]

\* len() of a word and of a text.
WordLen(w) ==
    CASE w = "" -> 0
      [] w = "k" -> 1
      [] w \in {"kk", "is"} -> 2
      [] w = "what" -> 4
      [] w = "@here" -> 5
      [] w = "<@BOT>" -> 6
      [] w \in {"<@!BOT>", "explain", "EXPLAIN"} -> 7
      [] OTHER -> 9
RECURSIVE TextLen(_)
TextLen(t) ==
    IF t = <<>> THEN 0
    ELSE IF Len(t) = 1 THEN WordLen(t[1])
    ELSE WordLen(Head(t)) + 1 + TextLen(Tail(t))

\* str.lower() and the substring test, on words.
Lower(w) == IF w = "EXPLAIN" THEN "explain" ELSE w
Contains(t, k) ==
    \E i \in 1..(Len(t) - Len(k) + 1) : SubSeq(t, i, i + Len(k) - 1) = k

\* detect_explanation_request (lines 490-500).
ExplanationKeywords == {<<"explain">>, <<"what", "is">>}
DetectExplanationRequest(t) ==
    LET content_lower == [i \in 1..Len(t) |-> Lower(t[i])]
    IN  \E k \in ExplanationKeywords : Contains(content_lower, k)

\* Line 904: message.author == bot.user.
\* (Variant without the test.)
IsOwnMessageNever(m) == FALSE
IsOwnMessage(m) == m.byBot
\* Line 908.
\* (Variant without the test.)
HasBroadcastNever(t) == FALSE
HasBroadcast(t) == Contains(t, <<"@everyone">>) \/ Contains(t, <<"@here">>)
\* Lines 913-915.
HasContent(m) == m.content # <<>> \/ m.attach \/ m.embeds
PassesGuards(m) ==
    /\ ~IsOwnMessage(m)
    /\ ~HasBroadcast(m.content)
    /\ HasContent(m) \/ m.ref # "none"

\* Lines 992-999; r is the author kind of referenced_msg, "none" for None.
\* (Variant: every reply to the bot is answered.)
ShouldRespondEveryReply(m, r) == m.mention \/ r = "self"
ShouldRespond(m, r) ==
    LET is_mention == m.mention
        is_reply_to_bot == r = "self"
        has_new_images == m.attach \/ m.embeds
        is_reply_to_other_bot == r = "otherbot"
        is_explanation_request == DetectExplanationRequest(m.content)
        is_reply_to_user_with_explanation ==
            r = "user" /\ is_explanation_request /\ is_mention
    IN  \/ is_mention
        \/ is_reply_to_bot /\ has_new_images
        \/ is_reply_to_other_bot /\ is_explanation_request
        \/ is_reply_to_user_with_explanation

\* re.sub(r'<@!?{id}>', '', content) and .strip(), on words.
SubMention(t) ==
    [i \in 1..Len(t) |-> IF t[i] \in MentionTokens THEN "" ELSE t[i]]
RECURSIVE LStripText(_)
LStripText(t) ==
    IF t # <<>> /\ Head(t) = "" THEN LStripText(Tail(t)) ELSE t
RECURSIVE RStripText(_)
RStripText(t) ==
    IF t # <<>> /\ t[Len(t)] = "" THEN RStripText(SubSeq(t, 1, Len(t) - 1))
    ELSE t
StripText(t) == RStripText(LStripText(t))

DescribePrompt == <<"Please describe this image(s).">>
ContinuePrompt == <<"Please continue our conversation.">>
IntroducePrompt == <<"Hello! Can you introduce yourself?">>
ContinueTemplate(t) == <<"Continuing our conversation: '">> \o t \o <<"'">>
HelloTemplate(t) ==
    <<"Hello! Someone said '">> \o t \o <<"'. Can you respond to that?">>

\* Line 740: len(content.strip()) < 3.
\* (Variant with the limit one lower.)
IsShortUnderTwo(t) == TextLen(StripText(t)) < 2
IsShort(t) == TextLen(StripText(t)) < 3

\* Lines 722-745 of the impl.
NormalizeContent(m, is_reply_to_bot) ==
    LET content == IF m.mention THEN StripText(SubMention(m.content))
                   ELSE m.content
        has_images == m.attach \/ m.embeds
    IN  IF content = <<>>
        THEN IF has_images THEN DescribePrompt
             ELSE IF is_reply_to_bot THEN ContinuePrompt
             ELSE IntroducePrompt
        ELSE IF IsShort(content) /\ ~has_images
        THEN IF is_reply_to_bot THEN ContinueTemplate(StripText(content))
             ELSE HelloTemplate(StripText(content))
        ELSE content

\* The serializer while user A's request is in service, with or without a
\* request of user B in the waiting list.
SerBusy(queued) ==
    /\ arrived = IF queued THEN 2 ELSE 1
    /\ author = [m \in Msgs |-> IF m = 1 THEN "A"
                                ELSE IF queued /\ m = 2 THEN "B" ELSE None]
    /\ pc = [m \in Msgs |-> IF m = 1 THEN "thinking"
                            ELSE IF queued /\ m = 2 THEN "queued" ELSE "idle"]
    /\ req = [m \in Msgs |-> IF m = 1 THEN 1 ELSE 0]
    /\ locked = TRUE
    /\ waiters = <<>>
    /\ current = "A"
    /\ waiting = IF queued THEN <<<<2, NoticeOf(2)>>>> ELSE <<>>
    /\ api = [m \in Msgs |-> ""]
    /\ resp = [m \in Msgs |-> ""]
    /\ attempts = [m \in Msgs |-> 0]
    /\ processed = {1}
    /\ thinking_message = [m \in Msgs |-> NoThinking]

CInit ==
    /\ SerIdle \/ SerBusy(FALSE) \/ SerBusy(TRUE)
    /\ HistIdle /\ ClassIdle /\ SplitIdle /\ XIdle

\* The message event of message m, written by user u (by the bot itself when
\* m.byBot): lines 904-915, then the fetch of the reference or the decision.
CArrive(u, m) ==
    /\ cms = 0
    /\ cms' = arrived + 1
    /\ msg' = m
    /\ ArriveStep(MaxMsgs, IF m.byBot THEN BotUser ELSE u,
                  PassesGuards(m) /\ m.ref # "none",
                  PassesGuards(m) /\ ShouldRespond(m, "none"))
    /\ UNCHANGED <<refmsg, implRef, prompt, ipc, calls>>
    /\ UNCHANGED <<hvars, pvars, xvars>>

\* The exceptions fetch_message raises.
FetchErrors == {"NotFound", "Forbidden", "HTTPException"}
\* The except clauses around the fetch of on_message (lines 985-990).
\* (Variant without the last clause.)
RefExceptClausesNoCatchAll == {"NotFound", "Forbidden"}
RefExceptClauses == {"NotFound", "Forbidden", "Exception"}
RefFetchCaught(e) == RefExceptClauses \cap ClassesOf(e) # {}

\* fetch_message of line 926 returned (res = "ok") or raised res.  A caught
\* exception leaves referenced_msg None and the handler goes on to the
\* decision; one that is not caught would reach the except block of
\* on_message (lines 1022-1031).
CFetchReturn(res) ==
    /\ cms # 0 /\ pc[cms] = "fetch"
    /\ refmsg' = IF res = "ok" THEN msg.ref ELSE "none"
    /\ IF res = "ok" \/ RefFetchCaught(res)
       THEN FetchStep(cms, ShouldRespond(msg, refmsg'))
       ELSE /\ pc' = [pc EXCEPT ![cms] = "apology"]
            /\ current' = IF locked THEN None ELSE current
            /\ UNCHANGED <<arrived, author, req, locked, waiters, waiting,
                           api, resp, attempts, processed, thinking_message>>
    /\ UNCHANGED <<cms, msg, implRef, prompt, ipc, calls>>
    /\ UNCHANGED <<hvars, pvars, xvars>>

\* The impl, begun for message cms by handler h, fetched the reference again
\* (line 656) and normalized the content.
CNormalize(h, ok) ==
    /\ cms # 0 /\ req[h] = cms
    /\ pc[h] \in {"thinking", "complete"}
    /\ prompt = <<>>
    /\ implRef' = IF ok THEN msg.ref ELSE "none"
    /\ prompt' = NormalizeContent(msg, implRef' = "self")
    /\ ipc' = "images"
    /\ UNCHANGED <<cms, msg, refmsg, calls>>
    /\ UNCHANGED <<svars, hvars, pvars, xvars>>

\* Lines 779-785: get_image_descriptions is awaited when the message has
\* attachments or embeds.  process_image_attachment posts an attachment to
\* the vision API (line 118) when its content type is an image type
\* (isImage, line 75); an embed is described by its URL, without a call.
CDescribe(h, isImage) ==
    /\ cms # 0 /\ req[h] = cms
    /\ ipc = "images"
    /\ calls' = IF msg.attach /\ isImage THEN Append(calls, "vision")
              ELSE calls
    /\ ipc' = "thinking"
    /\ UNCHANGED <<cms, msg, refmsg, implRef, prompt>>
    /\ UNCHANGED <<svars, hvars, pvars, xvars>>

\* Lines 788-789: the thinking message is sent and the send returns.
CThinking(h) ==
    /\ cms # 0 /\ req[h] = cms
    /\ ipc = "thinking"
    /\ ThinkingStep(h)
    /\ calls' = Append(calls, "thinking")
    /\ ipc' = "completion"
    /\ UNCHANGED <<cms, msg, refmsg, implRef, prompt>>
    /\ UNCHANGED <<hvars, pvars, xvars>>

\* Line 792: get_ai_response starts the completion call (line 403).
CComplete(h) ==
    /\ cms # 0 /\ req[h] = cms
    /\ ipc = "completion" /\ pc[h] = "complete"
    /\ calls' = Append(calls, "completion")
    /\ ipc' = "called"
    /\ UNCHANGED <<cms, msg, refmsg, implRef, prompt>>
    /\ UNCHANGED <<svars, hvars, pvars, xvars>>

ClassNext ==
    \/ cms = 0 /\ \E u \in Users, m \in Messages : CArrive(u, m)
    \/ \E res \in {"ok"} \cup FetchErrors : CFetchReturn(res)
    \/ \E h \in Msgs, ok \in BOOLEAN : CNormalize(h, ok)
    \/ \E h \in Msgs, isImage \in BOOLEAN : CDescribe(h, isImage)
    \/ \E h \in Msgs : CThinking(h)
    \/ \E h \in Msgs : CComplete(h)

ClassSpec == CInit /\ [][ClassNext]_vars

\* ------------------------------------- content of a referenced message
\* The referenced message of a request, fetched at line 656 and written by
\* another bot (bot) or by a user.  content is its text as words (empty, the
\* bot's mention token alone, or a word); its embeds are absent, "bare"
\* (no title, description, fields, footer, author, timestamp, URL, image or
\* thumbnail), "url" (a URL and no title or description) or "titled".
\* Components, reactions, flags, interaction and application are absent.
\* A string built by the code is the sequence of its parts: it is empty
\* exactly when the sequence is.
RefContents == {<<>>, <<"<@BOT>">>, <<"kk">>}
RefEmbeds == {"none", "bare", "url", "titled"}
RefMessages == [bot : BOOLEAN, content : RefContents, embeds : RefEmbeds,
                attach : BOOLEAN, stickers : BOOLEAN, system : BOOLEAN]

\* Line 710: the placeholder for a message without content.
Sentinel == <<"[Empty or deleted message]">>

\* extract_bot_message_content (lines 136-325): the parts collected, joined.
ExtractBotMessageContent(r) ==
    LET parts ==
            (IF r.content # <<>> THEN <<"Message: ">> \o r.content ELSE <<>>)
            \o (IF r.embeds \in {"url", "titled"} THEN <<"Embed 1: ">>
                ELSE <<>>)
            \o (IF r.attach THEN <<"Attachment 1: ">> ELSE <<>>)
            \o (IF r.stickers THEN <<"Stickers: ">> ELSE <<>>)
    IN  IF parts # <<>> THEN parts
        ELSE IF r.system THEN <<"System message type: ">>
        ELSE <<>>

\* Lines 671-714: the content taken from a user's message.
ExtractUserMessageContent(r) ==
    LET original_content ==
            IF r.content # <<>> THEN r.content
            ELSE IF r.embeds # "none"
                 THEN (IF r.embeds = "titled" THEN <<"title">> ELSE <<>>)
            ELSE IF r.attach THEN <<"[Attachments: ", "]">>
            ELSE Sentinel
        cleaned_content == StripText(SubMention(original_content))
    IN  IF cleaned_content # <<>> THEN cleaned_content ELSE original_content

\* Lines 762-775 with build_enhanced_reference_context (lines 503-525).
ReferenceContext(r, referenced_content) ==
    IF referenced_content = <<>> THEN <<>>
    ELSE <<IF r.bot THEN " [Referring to bot message: " ELSE " [Replying to: ">>
         \o referenced_content \o <<"]">>

RInit ==
    /\ rmsg \in RefMessages
    /\ refContent = <<>> /\ refContext = <<>> /\ rpc = "extract"
    /\ SerIdle /\ HistIdle /\ ClassIdle /\ SplitIdle
    /\ DeliverIdle /\ ReactIdle

\* Lines 662-714: referenced_content is taken from the fetched message.
RExtract ==
    /\ rpc = "extract"
    /\ refContent' = IF rmsg.bot THEN ExtractBotMessageContent(rmsg)
                     ELSE ExtractUserMessageContent(rmsg)
    /\ rpc' = "context"
    /\ UNCHANGED <<rmsg, refContext>>
    /\ UNCHANGED <<svars, hvars, cvars, pvars, dvars, kvars>>

\* Lines 762-777: reference_context is built and joined to the prompt.
RContext ==
    /\ rpc = "context"
    /\ refContext' = ReferenceContext(rmsg, refContent)
    /\ rpc' = "done"
    /\ UNCHANGED <<rmsg, refContent>>
    /\ UNCHANGED <<svars, hvars, cvars, pvars, dvars, kvars>>

RNext == RExtract \/ RContext

RefSpec == RInit /\ [][RNext]_vars

\* ------------------------------------------------------ the splitter
\* Discord's message limit and the lowest break position the splitter
\* accepts (lines 801-816).
ChunkLimit == 2000
BreakFloor == 1800

\* Python's s[:n], s[n:], s.rfind(c) (0-based, -1 when absent) and
\* s.lstrip(), on sequences of characters.
Take(s, n) == SubSeq(s, 1, IF n < Len(s) THEN n ELSE Len(s))
Drop(s, n) == SubSeq(s, n + 1, Len(s))
RFind(s, c) ==
    LET at == {i \in 1..Len(s) : s[i] = c}
    IN  IF at = {} THEN -1 ELSE (CHOOSE i \in at : \A j \in at : j <= i) - 1
IsSpace(c) == c \in {" ", "\n", "\t"}
RECURSIVE LStrip(_)
LStrip(s) == IF s # <<>> /\ IsSpace(Head(s)) THEN LStrip(Tail(s)) ELSE s
Max3(a, b, c) ==
    IF a >= b /\ a >= c THEN a ELSE IF b >= c THEN b ELSE c

\* Line 807: chunk = remaining[:2000].
\* (Variant that takes one character more.)
HardCutWide(rem) == Take(rem, ChunkLimit + 1)
HardCut(rem) == Take(rem, ChunkLimit)

\* Lines 807-816: the chunk cut from remaining.
\* (Variant that breaks at the last space wherever it is.)
ChunkOfAnySpace(rem) ==
    LET chunk == HardCut(rem)
        last_sentence == Max3(RFind(chunk, "."), RFind(chunk, "!"),
                              RFind(chunk, "?"))
        last_space == RFind(chunk, " ")
    IN  IF last_sentence > BreakFloor THEN Take(chunk, last_sentence + 1)
        ELSE IF last_space >= 0 THEN Take(chunk, last_space)
        ELSE chunk
ChunkOf(rem) ==
    LET chunk == HardCut(rem)
        last_sentence == Max3(RFind(chunk, "."), RFind(chunk, "!"),
                              RFind(chunk, "?"))
        last_space == RFind(chunk, " ")
    IN  IF last_sentence > BreakFloor THEN Take(chunk, last_sentence + 1)
        ELSE IF last_space > BreakFloor THEN Take(chunk, last_space)
        ELSE chunk

\* Line 819: remaining = remaining[len(chunk):].lstrip().
\* (Variant that skips one character more.)
RestAfterSkippingOne(rem, chunk) == LStrip(Drop(rem, Len(chunk) + 1))
RestAfter(rem, chunk) == LStrip(Drop(rem, Len(chunk)))

\* Responses longer than the limit: letters, with a separator at every
\* multiple of period followed by ws whitespace characters, and a space at
\* every multiple of spaceAt (0: none).  A response ends with a letter: the
\* completion client strips it (line 406).
TextLengths == {2001, 3999, 4001, 4500}
Periods == {7, 1801, 1802, 1900, 2000, 2001, 2500}
Separators == {".", "!", "?", " "}
WsChars == {" ", "\n"}
SpacePeriods == {0, 1850}
TextOfShape(n, period, sep, ws, wc, spaceAt) ==
    [i \in 1..n |->
        IF i = n THEN "a"
        ELSE IF i % period = 0 THEN sep
        ELSE IF i > period /\ i % period \in 1..ws THEN wc
        ELSE IF spaceAt # 0 /\ i % spaceAt = 0 THEN " "
        ELSE "a"]
Texts ==
    {TextOfShape(n, period, sep, ws, wc, spaceAt) :
        n \in TextLengths, period \in Periods, sep \in Separators,
        ws \in 0..MaxWs, wc \in WsChars, spaceAt \in SpacePeriods}

\* Lines 801-805: a response longer than the limit enters the loop.
PInit ==
    /\ text \in Texts
    /\ remaining = text
    /\ chunks = <<>>
    /\ spc = "loop"
    /\ SerIdle /\ HistIdle /\ ClassIdle /\ XIdle

\* Lines 805-819: one iteration of the loop.
SplitStep ==
    /\ spc = "loop" /\ Len(remaining) > ChunkLimit
    /\ chunks' = Append(chunks, ChunkOf(remaining))
    /\ remaining' = RestAfter(remaining, ChunkOf(remaining))
    /\ UNCHANGED <<text, spc>>
    /\ UNCHANGED <<svars, hvars, cvars, xvars>>

\* Lines 821-822: the loop is left and what remains is the last chunk.
SplitFinish ==
    /\ spc = "loop" /\ Len(remaining) <= ChunkLimit
    /\ chunks' = IF remaining # <<>> THEN Append(chunks, remaining) ELSE chunks
    /\ spc' = "done"
    /\ UNCHANGED <<text, remaining>>
    /\ UNCHANGED <<svars, hvars, cvars, xvars>>

PNext == SplitStep \/ SplitFinish

SplitSpec == PInit /\ [][PNext]_vars

\* ------------------------------------------------------ the delivery
\* The delivery of a response by the impl (lines 826-896): a response
\* within the limit by its length, a longer one by the lengths of its
\* chunks.  A message body is its length; a message is the request, the
\* status message, or the message made by send call k.
\* Line 828: the text the status message is edited to for a long response.
LongNoticeLen == 57
\* Lines 846, 873: f"{message.author.mention} " for a user id of 18 digits.
MentionPrefixLen == 22
ChunkLens == {ChunkLimit - MentionPrefixLen, ChunkLimit}
ShortLens == {1, ChunkLimit - MentionPrefixLen, ChunkLimit}
Status == <<"status", 0>>
Channel == <<"channel", 0>>
SentBy(k) == <<"sent", k>>

\* The exceptions of edit, reply and send, and the results the platform can
\* give for a body: one over the limit that line 800 names is refused.
SendErrors == {"Forbidden", "NotFound", "HTTPException"}
Outcomes(len) ==
    IF len > ChunkLimit THEN {"HTTPException"} ELSE {"ok"} \cup SendErrors

\* The except clauses around each call: the edit of the long notice (line
\* 830), the reply of a chunk (842, 851), the channel send of a chunk (848,
\* 856), the edit of a short response (864, 884), its reply (869, 876, 890)
\* and its channel send (874, 881, 895).
\* (Variant of the last without the catch-all.)
NoticeEditClauses == {"Exception"}
ChunkReplyClauses == {"Forbidden", "Exception"}
ChunkSendClauses == {"Exception"}
EditClauses == {"Forbidden", "Exception"}
ReplyClauses == {"Forbidden", "Exception"}
SendClausesForbiddenOnly == {"Forbidden"}
SendClauses == {"Exception"}
Caught(clauses, e) == clauses \cap ClassesOf(e) # {}

\* Lines 839, 846: last_message = sent_message.
\* (Variant that keeps replying to the same message.)
LastAfterSendKeeps(last, sent) == last
LastAfterSend(last, sent) == sent

DInit ==
    /\ \/ dkind = "short" /\ dbodies \in {<<n>> : n \in ShortLens}
       \/ dkind = "long"
          /\ dbodies \in UNION {[1..n -> ChunkLens] : n \in 2..MaxChunks}
    /\ dchunk = 1
    /\ last_message = Request
    /\ sends = <<>>
    /\ dpc = "edit"
    /\ SerIdle /\ HistIdle /\ ClassIdle /\ SplitIdle /\ RefIdle /\ ReactIdle

\* The record of a send call.
Call(op, target, chunk, len, res) ==
    [op |-> op, target |-> target, chunk |-> chunk, len |-> len, res |-> res]

\* After chunk dchunk was sent: the next chunk, or the end of the loop.
AfterChunk ==
    IF dchunk < Len(dbodies)
    THEN dchunk' = dchunk + 1 /\ dpc' = "chunkreply"
    ELSE dchunk' = dchunk /\ dpc' = "done"

\* thinking_message.edit returned or raised: line 828 for a long response,
\* line 862 for a short one.
DEdit(res) ==
    /\ dpc = "edit"
    /\ LET len == IF dkind = "short" THEN dbodies[1] ELSE LongNoticeLen
       IN  /\ res \in Outcomes(len)
           /\ sends' = Append(sends,
                    Call("edit", Status, IF dkind = "short" THEN 1 ELSE 0,
                         len, res))
    /\ dpc' = IF dkind = "short"
              THEN IF res = "ok" THEN "done"
                   ELSE IF Caught(EditClauses, res) THEN "reply"
                   ELSE "raised"
              ELSE IF res = "ok" \/ Caught(NoticeEditClauses, res)
                   THEN "chunkreply"
                   ELSE "raised"
    /\ UNCHANGED <<dkind, dbodies, dchunk, last_message>>
    /\ UNCHANGED <<svars, hvars, cvars, pvars, rvars, kvars>>

\* message.reply(ai_response) returned or raised: lines 868 and 888.
DReply(res) ==
    /\ dpc = "reply"
    /\ res \in Outcomes(dbodies[1])
    /\ sends' = Append(sends, Call("reply", Request, 1, dbodies[1], res))
    /\ dpc' = IF res = "ok" THEN "done"
              ELSE IF Caught(ReplyClauses, res) THEN "send"
              ELSE "raised"
    /\ UNCHANGED <<dkind, dbodies, dchunk, last_message>>
    /\ UNCHANGED <<svars, hvars, cvars, pvars, rvars, kvars>>

\* message.channel.send(mention + " " + ai_response) returned or raised:
\* lines 873, 880 and 893.
DSend(res) ==
    /\ dpc = "send"
    /\ res \in Outcomes(MentionPrefixLen + dbodies[1])
    /\ sends' = Append(sends, Call("send", Channel, 1,
                                   MentionPrefixLen + dbodies[1], res))
    /\ dpc' = IF res = "ok" \/ Caught(SendClauses, res) THEN "done"
              ELSE "raised"
    /\ UNCHANGED <<dkind, dbodies, dchunk, last_message>>
    /\ UNCHANGED <<svars, hvars, cvars, pvars, rvars, kvars>>

\* last_message.reply(chunk) returned or raised: lines 838-841.
DChunkReply(res) ==
    /\ dpc = "chunkreply"
    /\ res \in Outcomes(dbodies[dchunk])
    /\ sends' = Append(sends, Call("reply", last_message, dchunk,
                                   dbodies[dchunk], res))
    /\ IF res = "ok"
       THEN /\ last_message' =
                   LastAfterSend(last_message, SentBy(Len(sends) + 1))
            /\ AfterChunk
       ELSE /\ last_message' = last_message
            /\ dchunk' = dchunk
            /\ dpc' = IF Caught(ChunkReplyClauses, res) THEN "chunksend"
                      ELSE "raised"
    /\ UNCHANGED <<dkind, dbodies>>
    /\ UNCHANGED <<svars, hvars, cvars, pvars, rvars, kvars>>

\* message.channel.send(mention + " " + chunk) returned or raised: lines
\* 845-849 and 853-858; a failure leaves the loop.
DChunkSend(res) ==
    /\ dpc = "chunksend"
    /\ res \in Outcomes(MentionPrefixLen + dbodies[dchunk])
    /\ sends' = Append(sends, Call("send", Channel, dchunk,
                                   MentionPrefixLen + dbodies[dchunk], res))
    /\ IF res = "ok"
       THEN /\ last_message' =
                   LastAfterSend(last_message, SentBy(Len(sends) + 1))
            /\ AfterChunk
       ELSE /\ last_message' = last_message
            /\ dchunk' = dchunk
            /\ dpc' = IF Caught(ChunkSendClauses, res) THEN "done"
                      ELSE "raised"
    /\ UNCHANGED <<dkind, dbodies>>
    /\ UNCHANGED <<svars, hvars, cvars, pvars, rvars, kvars>>

DNext ==
    \/ \E res \in {"ok"} \cup SendErrors : DEdit(res)
    \/ \E res \in {"ok"} \cup SendErrors : DReply(res)
    \/ \E res \in {"ok"} \cup SendErrors : DSend(res)
    \/ \E res \in {"ok"} \cup SendErrors : DChunkReply(res)
    \/ \E res \in {"ok"} \cup SendErrors : DChunkSend(res)

DeliverSpec == DInit /\ [][DNext]_vars

\* ---------------------------------------------------- on_reaction_add
\* A reaction event: the reacting user, the emoji, the author of the
\* message reacted to, whether that message has an embed titled as an AI
\* generated image, and the author of the message it replies to (None: it
\* is not a reply).
XEmojis == {"cross_mark", "heavy_multiplication_x",
            "negative_squared_cross_mark", "x", "X"}
Emojis == XEmojis \cup {"thumbsup"}
Reactions == [user : Users \cup {BotUser}, emoji : Emojis,
              author : {BotUser, "A"}, image : BOOLEAN,
              ref : Users \cup {BotUser, None}]

\* Line 598: only the author of the original message may delete.
\* (Variant that lets anyone delete.)
IsRequesterAnyone(original_author, user) == TRUE
IsRequester(original_author, user) == original_author = user

\* The except clauses around the fetch of the original message (lines
\* 603-611) and around both deletes (lines 576-584 and 616-621).
ReactExceptClauses == {"NotFound", "Forbidden", "Exception"}

KInit ==
    /\ rx \in Reactions
    /\ kpc = "event"
    /\ SerIdle /\ HistIdle /\ ClassIdle /\ SplitIdle /\ RefIdle /\ DeliverIdle

\* Lines 555-596: the guards, up to the first await or the return.
KReact ==
    /\ kpc = "event"
    /\ kpc' = IF rx.user = BotUser THEN "ignored"
              ELSE IF rx.emoji \notin XEmojis THEN "ignored"
              ELSE IF rx.author # BotUser THEN "ignored"
              ELSE IF rx.image THEN "delete"
              ELSE IF rx.ref = None THEN "ignored"
              ELSE "fetch"
    /\ UNCHANGED rx
    /\ UNCHANGED <<svars, hvars, cvars, pvars, rvars, dvars>>

\* Lines 594-611: fetch_message of the original message returned or raised.
KFetchReturn(res) ==
    /\ kpc = "fetch"
    /\ kpc' = IF res = "ok"
              THEN IF IsRequester(rx.ref, rx.user) THEN "delete" ELSE "ignored"
              ELSE IF Caught(ReactExceptClauses, res) THEN "ignored"
              ELSE "raised"
    /\ UNCHANGED rx
    /\ UNCHANGED <<svars, hvars, cvars, pvars, rvars, dvars>>

\* Lines 575-584 and 613-621: reaction.message.delete() returned or raised.
KDeleteReturn(res) ==
    /\ kpc = "delete"
    /\ kpc' = IF res = "ok" THEN "deleted"
              ELSE IF Caught(ReactExceptClauses, res) THEN "kept"
              ELSE "raised"
    /\ UNCHANGED rx
    /\ UNCHANGED <<svars, hvars, cvars, pvars, rvars, dvars>>

KNext ==
    \/ KReact
    \/ \E res \in {"ok"} \cup FetchErrors : KFetchReturn(res)
    \/ \E res \in {"ok"} \cup FetchErrors : KDeleteReturn(res)

ReactSpec == KInit /\ [][KNext]_vars

\* ---------------------------------------- build_conversation_history
\* A chain message is "bot" (written by the bot), "mention" (written by a
\* user, mentions the bot) or "plain" (written by a user, no mention).  The
\* content of ancestor i is one word of its own, after the mention token if
\* it has one.  Message 0 is the triggering message, written by a user.
Kinds == {"bot", "mention", "plain"}
KindAt(c, i) == IF i = 0 THEN trigger ELSE c[i]
WordOf(i) == "text" \o ToString(i)
ContentOf(c, i) ==
    IF KindAt(c, i) = "mention"
    THEN <<(IF i % 2 = 0 THEN "<@BOT>" ELSE "<@!BOT>"), WordOf(i)>>
    ELSE <<WordOf(i)>>

\* re.sub(r'<@!?{id}>', '', content).strip(): every mention token is removed.
RECURSIVE StripMentions(_)
StripMentions(t) ==
    IF t = <<>> THEN <<>>
    ELSE IF Head(t) \in MentionTokens THEN StripMentions(Tail(t))
    ELSE <<Head(t)>> \o StripMentions(Tail(t))

IsBotMessage(c, i) == KindAt(c, i) = "bot"
MentionsBot(c, i) == KindAt(c, i) = "mention"
\* Line 458: the message is part of the bot conversation.
\* (Variant that takes every message.)
QualifiesAll(c, i) == TRUE
Qualifies(c, i) == IsBotMessage(c, i) \/ MentionsBot(c, i)

\* Line 466: history.insert(0, turn).
\* (Variant that appends.)
InsertTurnAtEnd(h, t) == Append(h, t)
InsertTurn(h, t) == <<t>> \o h

\* The except clauses around both fetches of the walk (lines 445-450 and
\* 475-480).
\* (Variant without the second clause.)
WalkExceptClausesNotFoundOnly == {"NotFound"}
WalkExceptClauses == {"NotFound", "Exception"}
FetchCaught(e) == WalkExceptClauses \cap ClassesOf(e) # {}

\* The turn built from ancestor i: lines 459-466.
TurnOf(c, i) ==
    [role |-> IF IsBotMessage(c, i) THEN "assistant" ELSE "user",
     content |-> IF ~IsBotMessage(c, i) /\ MentionsBot(c, i)
                 THEN StripMentions(ContentOf(c, i)) ELSE ContentOf(c, i)]

Alternating(c) ==
    \A i \in 1..(Len(c) - 1) : (c[i] = "bot") # (c[i + 1] = "bot")
AltChains ==
    UNION {{c \in [1..n -> Kinds] : Alternating(c)} : n \in 0..MaxChain}
ShortChains == UNION {[1..n -> Kinds] : n \in 0..MaxShort}
Chains == AltChains \cup ShortChains

\* The walk starts at the triggering message (cur = 0) of a reply chain;
\* failAt = i means that fetching ancestor i raises.
HInit ==
    /\ trigger \in {"mention", "plain"}
    /\ chain \in Chains
    /\ failAt \in 0..Len(chain)
    /\ cur = 0
    /\ depth = 0
    /\ history = <<>>
    /\ fetches = 0
    /\ wpc = "loop"
    /\ SerIdle /\ ClassIdle /\ SplitIdle /\ XIdle

\* Line 437: the loop goes on while depth < max_depth.
\* (Variant with an inclusive bound.)
LoopContinuesInclusive(d) == d <= MaxDepth
LoopContinues(d) == d < MaxDepth

\* Line 439: current_msg is the triggering message.
\* (Variant without the test.)
IsTriggerNever(i) == FALSE
IsTrigger(i) == i = 0

\* Lines 439-452: the iteration that finds current_msg to be the triggering
\* message fetches its reference and counts one hop.
WalkSkip ==
    /\ wpc = "loop" /\ LoopContinues(depth) /\ IsTrigger(cur)
    /\ IF Len(chain) >= 1
       THEN /\ fetches' = fetches + 1
            /\ IF failAt = 1
               THEN /\ \E e \in FetchErrors :
                         wpc' = IF FetchCaught(e) THEN "done" ELSE "raised"
                    /\ UNCHANGED <<cur, depth>>
               ELSE cur' = 1 /\ depth' = depth + 1 /\ wpc' = wpc
       ELSE wpc' = "done" /\ UNCHANGED <<cur, depth, fetches>>
    /\ UNCHANGED <<trigger, chain, failAt, history>>
    /\ UNCHANGED nonHist

\* Lines 454-484: an iteration on an ancestor records its turn if it
\* qualifies, then fetches the next reference.
WalkVisit ==
    /\ wpc = "loop" /\ LoopContinues(depth) /\ ~IsTrigger(cur)
    /\ history' = IF Qualifies(chain, cur)
                  THEN InsertTurn(history, TurnOf(chain, cur)) ELSE history
    /\ IF cur < Len(chain)
       THEN /\ fetches' = fetches + 1
            /\ IF failAt = cur + 1
               THEN /\ \E e \in FetchErrors :
                         wpc' = IF FetchCaught(e) THEN "done" ELSE "raised"
                    /\ UNCHANGED <<cur, depth>>
               ELSE cur' = cur + 1 /\ depth' = depth + 1 /\ wpc' = wpc
       ELSE wpc' = "done" /\ UNCHANGED <<cur, depth, fetches>>
    /\ UNCHANGED <<trigger, chain, failAt>>
    /\ UNCHANGED nonHist

\* Line 437: the loop condition fails on depth and the function returns.
WalkExit ==
    /\ wpc = "loop" /\ ~LoopContinues(depth)
    /\ wpc' = "done"
    /\ UNCHANGED <<trigger, chain, failAt, cur, depth, history, fetches>>
    /\ UNCHANGED nonHist

HNext == WalkSkip \/ WalkVisit \/ WalkExit

HistSpec == HInit /\ [][HNext]_vars

\* ---------------------------------------------- properties of HistSpec
\* C10: for every reply chain of at most 10 messages with alternating
\* bot/user authorship, all of them fetched, the returned history has exactly
\* one turn for each chain message that is written by the bot or mentions the
\* bot, and nothing else.
C10_ExactlyQualifyingTurns ==
    (wpc = "done" /\ failAt = 0 /\ Len(chain) <= 10 /\ Alternating(chain)) =>
        /\ \A i \in 1..Len(chain) :
              Cardinality({k \in 1..Len(history) : history[k] = TurnOf(chain, i)})
                 = IF Qualifies(chain, i) THEN 1 ELSE 0
        /\ \A k \in 1..Len(history) :
              \E i \in 1..Len(chain) : history[k] = TurnOf(chain, i)

\* C11: on a reply chain longer than max_depth whose messages can all be
\* fetched, the walk makes exactly max_depth fetches and stops, however much
\* of the chain remains; no walk ever makes more.
C11_ExactlyMaxDepthHops ==
    /\ fetches <= MaxDepth
    /\ (wpc = "done" /\ Len(chain) > MaxDepth /\ failAt \notin 1..MaxDepth)
          => fetches = MaxDepth

\* A finished walk over a chain with at least two messages beyond the bound.
C11_Witness ==
    wpc = "done" /\ Len(chain) >= MaxDepth + 2 /\ failAt = 0 /\ fetches = MaxDepth

\* C12: no turn of the history is built from the triggering message, at any
\* point of the walk and for every chain.
C12_TriggerNeverInHistory ==
    \A k \in 1..Len(history) : history[k] # TurnOf(chain, 0)

\* A finished walk from a triggering message that mentions the bot (so that
\* it would qualify) which returned some turns.
C12_Witness ==
    wpc = "done" /\ trigger = "mention" /\ Len(history) >= 2 /\ failAt = 0

\* The turns of the qualifying messages among ancestors 1..n, oldest first.
RECURSIVE TurnsUpTo(_, _)
TurnsUpTo(c, n) ==
    IF n = 0 THEN <<>>
    ELSE (IF c[n] \in {"bot", "mention"} THEN <<TurnOf(c, n)>> ELSE <<>>)
            \o TurnsUpTo(c, n - 1)
\* The last n elements of a sequence.
LastOf(q, n) == IF Len(q) <= n THEN q ELSE SubSeq(q, Len(q) - n + 1, Len(q))

\* C27: when every fetch succeeds and the chain has at least 10 qualifying
\* ancestors, the history returned is the 10 most recent qualifying turns.
C27_TenMostRecentTurns ==
    (/\ wpc = "done" /\ failAt = 0
     /\ Cardinality({i \in 1..Len(chain) : chain[i] \in {"bot", "mention"}})
           >= MaxDepth) =>
        history = LastOf(TurnsUpTo(chain, Len(chain)), MaxDepth)

\* C28: a fetch that fails during the walk, whatever the error, ends the
\* walk by a return, never by an exception, and the history returned is
\* the turns of the qualifying messages visited before it.
C28_FetchErrorReturnsAccumulated ==
    /\ wpc # "raised"
    /\ (wpc = "done" /\ failAt \in 1..MaxDepth) =>
          /\ history = TurnsUpTo(chain, failAt - 1)
          /\ fetches = failAt

\* The fetch of the fourth ancestor failed after three turns were recorded.
C28_Witness ==
    wpc = "done" /\ failAt = 4 /\ fetches = 4 /\ Len(history) = 3

\* C29: every turn of the history is the turn of an ancestor written by
\* the bot or mentioning the bot, and once the walk has returned without a
\* failed fetch and within the depth bound, a qualifying ancestor behind one
\* that is neither has its turn in the history.
C29_OnlyQualifyingAndWalkContinues ==
    /\ \A k \in 1..Len(history) : \E i \in 1..Len(chain) :
          history[k] = TurnOf(chain, i) /\ chain[i] \in {"bot", "mention"}
    /\ (wpc = "done" /\ failAt = 0 /\ Len(chain) < MaxDepth) =>
          \A i, j \in 1..Len(chain) :
              (i < j /\ chain[i] = "plain" /\ chain[j] \in {"bot", "mention"})
                  => \E k \in 1..Len(history) : history[k] = TurnOf(chain, j)

\* A walk returned the turn of a bot message that lies behind a message
\* that is neither by the bot nor a mention.
C29_Witness ==
    /\ wpc = "done" /\ failAt = 0 /\ Len(chain) >= 3
    /\ chain[1] = "mention" /\ chain[2] = "plain" /\ chain[3] = "bot"
    /\ Len(history) = 2

\* The ancestor a turn was built from: the one whose word it carries.
SourceOf(t) ==
    CHOOSE i \in 1..Len(chain) : t.content[Len(t.content)] = WordOf(i)

\* C30: the turns of the history are in chronological order, a turn from
\* further back in the chain before a turn from a nearer message, and a turn
\* has the role assistant exactly when its message was written by the bot.
C30_ChronologicalWithRoles ==
    /\ \A k, l \in 1..Len(history) :
          k < l => SourceOf(history[k]) > SourceOf(history[l])
    /\ \A k \in 1..Len(history) :
          history[k].role = "assistant" <=> chain[SourceOf(history[k])] = "bot"

\* A finished walk returned a user turn and a later assistant turn.
C30_Witness ==
    /\ wpc = "done" /\ Len(history) >= 3
    /\ history[1].role = "user" /\ history[2].role = "assistant"
    /\ SourceOf(history[1]) = SourceOf(history[2]) + 1

\* ------------------------------------------------- properties of Spec
\* A handler passes the busy test of line 1008 in this step.
AtGate(h) == pc[h] \in {"idle", "fetch"} /\ pc'[h] \in {"notice", "lockwait", "thinking"}
\* The processing of the request handler h holds ends in this step.
EndsProcessing(h) == InImpl(h) /\ (~InImpl(h)' \/ req'[h] # req[h])

\* C1: at most one request is inside _process_user_message_impl at any time,
\* whoever sent it and however it was dispatched (directly, as a same-user
\* continuation, or from the waiting list).
C1_SingleFlight == Cardinality({h \in Msgs : InImpl(h)}) <= 1

\* One request is in processing while a popped request waits for the lock.
C1_Witness ==
    \E h, g \in Msgs : InImpl(h) /\ req[h] = h /\ pc[g] = "lockwait" /\ req[g] # g

\* C2: current_processing_user is non-null exactly when the processing lock
\* is held.
C2_OccupantIffLocked == (current # None) <=> locked

\* C3: of the first two requests, sent by different users and both accepted,
\* none is dropped or left behind: once both handlers have returned normally
\* (and nothing else has arrived) both requests have been processed, and the
\* two are never in processing together.
C3_SecondQueuedThenProcessed ==
    /\ (/\ arrived = 2
        /\ author[1] # author[2]
        /\ pc[1] \in {"done", "queued"}
        /\ pc[2] \in {"done", "queued"}) => {1, 2} \subseteq processed
    /\ ~(\E h, g \in Msgs : InImpl(h) /\ InImpl(g) /\ req[h] = 1 /\ req[g] = 2)

\* C4: every request placed on the waiting list is dispatched without a
\* further incoming message: when every handler has returned, none of them
\* through the except block, the waiting list is empty.
C4_QuiescentMeansDrained ==
    (\A h \in Msgs : Returned(h) /\ pc[h] # "failed") => waiting = <<>>

\* C5: of two requests that were both put on the waiting list, the one whose
\* on_message event came first begins processing first.
C5_QueuedFifoByArrival ==
    \A m, n \in Msgs :
        (m < n /\ pc[m] = "queued" /\ pc[n] = "queued" /\ n \in processed)
            => m \in processed

\* C6: while a request of user A is in processing, a further request of A
\* passing the busy test gets no wait notice and waits for the lock as a
\* continuation, and a request of another user gets the wait notice.
C6_OwnerContinues ==
    [][\A h \in Msgs : AtGate(h) =>
          \A g \in Msgs : InImpl(g) =>
              IF author[req[g]] = author'[h]
              THEN pc'[h] = "lockwait" /\ waiting' = waiting
              ELSE pc'[h] = "notice"]_vars

\* C7: a request that finds the slot busy with another user is not processed
\* by its handler: the handler sends the wait notice, appends <<message,
\* notice>> at the tail of the waiting list and returns.
C7_BusyBranchEnqueues ==
    [][\A h \in Msgs :
          /\ (AtGate(h) /\ \E g \in Msgs : InImpl(g) /\ author[req[g]] # author'[h])
                => pc'[h] = "notice" /\ processed' = processed
          /\ (pc[h] = "notice" /\ pc'[h] # "notice")
                => /\ pc'[h] = "queued"
                   /\ waiting' = Append(waiting, <<h, NoticeOf(h)>>)
                   /\ processed' = processed]_vars

\* C8: when the processing of a request ends, by return or by exception, the
\* lock is no longer held for it and the occupant field is cleared: after the
\* step the lock is free and the occupant null, or both belong to another
\* request that has just begun processing.
C8_ReleasedOnEnd ==
    [][\A h \in Msgs : EndsProcessing(h) =>
          \/ ~locked' /\ current' = None
          \/ \E g \in Msgs : /\ InImpl(g)' /\ req'[g] # req[h]
                             /\ locked' /\ current' = author'[req'[g]]]_vars

\* A processing has ended by exception and another by return.
C8_Witness ==
    \E h, g \in Msgs : pc[h] = "failed" /\ req[h] = h /\ pc[g] = "done"

\* C9: when the completion call of the request in service timed out, the
\* text delivered is the timeout apology, and when its processing ends the
\* head of the waiting list, if any, is popped and dispatched.
C9_TimeoutThenNext ==
    [][\A h \in Msgs : (pc[h] = "deliver" /\ api[h] = "timeout") =>
          /\ resp[h] = TimeoutApology
          /\ pc'[h] # "deliver" =>
                /\ \/ ~locked' /\ current' = None
                   \/ \E g \in Msgs : InImpl(g)' /\ req'[g] # req[h]
                /\ waiting # <<>> =>
                      waiting' = Tail(waiting) /\ req'[h] = Head(waiting)[1]]_vars

\* C20: when the processing of a request ends by raising, the slot is
\* released and, if the waiting list is non-empty, its head is popped and
\* dispatched by that handler, as after a processing that returned.
C20_DrainAfterRaise ==
    [][\A h \in Msgs : (pc[h] = "thinking" /\ pc'[h] = "apology") =>
          /\ \/ ~locked' /\ current' = None
             \/ \E g \in Msgs : InImpl(g)' /\ req'[g] # req[h]
          /\ waiting # <<>> =>
                waiting' = Tail(waiting) /\ req'[h] = Head(waiting)[1]]_vars

\* C21: while the waiting list is non-empty, a request that arrives from a
\* user who is not the occupant does not begin processing on arrival, ahead
\* of the entries of the waiting list.
C21_NoOvertaking ==
    [][\A m \in Msgs :
          (pc[m] = "idle" /\ pc'[m] = "thinking" /\ waiting # <<>>) =>
              current = author'[m]]_vars

\* C22: when the send of the wait notice fails in a handler, which does not
\* hold the lock, the except block leaves the occupant field as it was.
C22_ForeignExceptKeepsOccupant ==
    [][\A h \in Msgs : (pc[h] = "notice" /\ pc'[h] = "apology") =>
          current' = current]_vars

\* C24: whether the send of the thinking message succeeds or fails, the
\* handler goes on to the completion call for that request.
C24_ThinkingFailureNotFatal ==
    [][\A h \in Msgs : (pc[h] = "thinking" /\ pc'[h] # "thinking") =>
          pc'[h] = "complete" /\ req'[h] = req[h]]_vars

\* C23: the generic apology of the except block of on_message replies to the
\* request whose processing raised, also when that request was popped from
\* the waiting list by the handler of an earlier message.
C23_ApologyToRaisingRequest ==
    \A h \in Msgs :
        (pc[h] = "apology" /\ req[h] # 0) => ApologyTarget(h) = req[h]

\* Line 862: the message the short delivery edits.
EditTarget(h) == thinking_message[h]

\* C25: a request dispatched from the waiting list never waits at the send of
\* a thinking message, and throughout its impl, up to the short delivery,
\* the message to edit is the wait notice that was sent for it.
C25_DrainedReusesNotice ==
    \A h \in Msgs :
        (req[h] \notin {0, h} /\ InImpl(h)) =>
            /\ pc[h] # "thinking"
            /\ EditTarget(h) = NoticeOf(req[h])
C25_Witness ==
    \E h \in Msgs :
        /\ req[h] \notin {0, h} /\ pc[h] = "deliver"
        /\ resp[h] = ModelText
        /\ EditTarget(h) = NoticeOf(req[h])

\* C34: no request has more than one completion call made for it, whatever
\* the call returned.
C34_SingleAttempt ==
    \A h \in Msgs : attempts[h] <= 1

\* The delivery of the timeout apology after one call.
C34_Witness ==
    \E h \in Msgs :
        /\ pc[h] = "deliver" /\ api[h] = "timeout"
        /\ resp[h] = TimeoutApology /\ attempts[h] = 1

\* Handler h begins the processing of request m in this step: it enters the
\* impl for a request it was not yet in the impl for.
Begins(h, m) ==
    /\ req'[h] = m /\ pc'[h] \in {"thinking", "complete", "deliver"}
    /\ ~InImpl(h) \/ req[h] # m

\* C39: no handler begins the processing of a message whose processing was
\* begun before, and no message is on the waiting list while a handler has
\* it as its request.
C39_ProcessedOnce ==
    [][/\ \A h \in Msgs, m \in Msgs : Begins(h, m) => m \notin processed
       /\ \A h \in Msgs, i \in 1..Len(waiting') :
             req'[h] # waiting'[i][1]]_vars

\* A message that was on the waiting list is in processing, in the handler
\* of another message, while a third one is on the list.
C39_Witness ==
    \E h \in Msgs :
        /\ req[h] \notin {0, h} /\ InImpl(h) /\ req[h] \in processed
        /\ waiting # <<>>

\* The canned apologies of get_ai_response.
Apologies == {TimeoutApology, ConnectApology, ParseApology, OtherApology}

\* C15: whatever the outcome of the remote call, the completion call returns
\* to the impl (the handler goes on to delivery) and, when the outcome is a
\* failure, the text it returned is one of the canned apologies.
C15_FailsClosed ==
    [][\A h \in Msgs : (pc[h] = "complete" /\ pc'[h] # "complete") =>
          /\ pc'[h] = "deliver"
          /\ api'[h] \notin {"ok", "empty"} => resp'[h] \in Apologies]_vars

\* A completion call that failed with an exception only the last clause
\* catches has returned its apology.
C15_Witness ==
    \E h \in Msgs : pc[h] = "deliver" /\ api[h] = "other" /\ resp[h] = OtherApology

\* Handler h holds an entry it popped from the waiting list (line 1019) whose
\* processing has not begun: it is queued in acquire().
InTransit(h) == req[h] # 0 /\ req[h] # h /\ pc[h] = "lockwait"
\* Handler h is draining: it popped an entry and has not returned.
Draining(h) == req[h] # 0 /\ req[h] # h /\ pc[h] \notin Final

\* C19: at most one popped entry is waiting to begin processing, and at
\* most one handler is draining.
C19_OneInTransit ==
    /\ Cardinality({h \in Msgs : InTransit(h)}) <= 1
    /\ Cardinality({h \in Msgs : Draining(h)}) <= 1

\* ------------------------------------------- properties of ClassSpec
\* The handler of message h makes its decision in this step.
Decides(h) == pc[h] \in {"idle", "fetch"} /\ pc'[h] \notin {"idle", "fetch"}

\* The final decision in terms of the message and the referenced message.
Decision(m, r) ==
    \/ m.mention
    \/ r = "self" /\ (m.attach \/ m.embeds)
    \/ r = "otherbot" /\ DetectExplanationRequest(m.content)
    \/ r = "user" /\ DetectExplanationRequest(m.content) /\ m.mention

\* The message passes the own-author, broadcast-token and emptiness guards.
Guarded(m) ==
    /\ ~m.byBot
    /\ \A i \in 1..Len(m.content) : m.content[i] \notin {"@everyone", "@here"}
    /\ m.content # <<>> \/ m.attach \/ m.embeds \/ m.ref # "none"

C14_RejectedLeavesNoTrace ==
    [][(cms' # 0 /\ Decides(cms')
          /\ (~Guarded(msg') \/ ~Decision(msg', refmsg'))) =>
          /\ pc'[cms'] = "rejected"
          /\ UNCHANGED <<req, locked, waiters, current, waiting, processed,
                         prompt>>
          /\ \A g \in Msgs \ {cms'} : pc'[g] = pc[g]]_vars

\* A two-character reply to the bot's message, without attachment, embed or
\* mention, was rejected while a request was in service and one waiting.
C14_Witness ==
    /\ cms # 0 /\ pc[cms] = "rejected"
    /\ msg.content = <<"kk">> /\ refmsg = "self"
    /\ ~msg.mention /\ ~msg.attach /\ ~msg.embeds
    /\ locked /\ current = "A" /\ waiting # <<>>

\* C31: a message with a broadcast token in its content is rejected: no
\* request is made for it, it is not processed, no prompt is built and
\* nothing is sent or called for it.
C31_BroadcastNeverAnswered ==
    (cms # 0 /\ \E i \in 1..Len(msg.content) :
                  msg.content[i] \in {"@everyone", "@here"}) =>
        /\ pc[cms] = "rejected"
        /\ req[cms] = 0 /\ cms \notin processed
        /\ \A i \in 1..Len(waiting) : waiting[i][1] # cms
        /\ prompt = <<>> /\ calls = <<>>

\* Rejected although it mentions the bot, replies to the bot's message with
\* an attachment and asks for an explanation.
C31_Witness ==
    /\ cms # 0 /\ pc[cms] = "rejected"
    /\ msg.content = <<"@everyone", "explain">>
    /\ msg.mention /\ msg.attach /\ msg.ref = "self" /\ ~msg.byBot

\* C32: when the fetch of the referenced message fails, the handler does not
\* enter its except block, and it goes on to the busy test exactly when the
\* message mentions the bot.
C32_FetchFailureMeansNoReference ==
    [][(cms # 0 /\ pc[cms] = "fetch" /\ pc'[cms] # "fetch"
          /\ refmsg' = "none") =>
          /\ pc'[cms] # "apology"
          /\ pc'[cms] # "rejected" <=> msg.mention]_vars

\* A reply to the bot's message with an attachment and no mention, which is
\* answered when the fetch succeeds, was rejected after the fetch failed.
C32_Witness ==
    /\ cms # 0 /\ pc[cms] = "rejected"
    /\ msg.ref = "self" /\ msg.attach /\ ~msg.mention /\ ~msg.byBot
    /\ \A i \in 1..Len(msg.content) :
          msg.content[i] \notin {"@everyone", "@here"}
    /\ refmsg = "none"

\* The text of the message as the normalization tests it: stripped, and
\* without the mention tokens when the message mentions the bot.
TextOf(m) ==
    IF m.mention THEN StripText(SubMention(m.content))
    ELSE StripText(m.content)
\* The expansion template for the case of the message.
TemplateFor(m, r) ==
    IF r = "self" THEN ContinueTemplate(TextOf(m)) ELSE HelloTemplate(TextOf(m))

\* C18 as stated: a normalized message without attachments whose text is
\* under 3 characters has the expansion template of its case as prompt.
C18_ShortTextExpanded ==
    (prompt # <<>> /\ ~msg.attach /\ TextLen(TextOf(msg)) < 3) =>
        prompt = TemplateFor(msg, implRef)

\* C18 amended: a normalized message without attachments and without embeds
\* whose text is non-empty and under 3 characters has the expansion
\* template of its case as prompt, which is not the text alone.
C18_ShortTextExpandedUnlessImages ==
    (/\ prompt # <<>> /\ ~msg.attach /\ ~msg.embeds
     /\ TextOf(msg) # <<>> /\ TextLen(TextOf(msg)) < 3) =>
        /\ prompt = TemplateFor(msg, implRef)
        /\ prompt # TextOf(msg)

\* A mention of two characters in reply to the bot was expanded.
C18_Witness ==
    /\ msg.content = <<"<@BOT>", "kk">> /\ msg.mention /\ implRef = "self"
    /\ ~msg.attach /\ ~msg.embeds
    /\ prompt = ContinueTemplate(<<"kk">>)

\* C26: for a request that comes without a notice, every remote call (image
\* description, completion) is started after the thinking message was sent.
C26_ThinkingBeforeRemoteCalls ==
    \A h \in Msgs :
        (cms # 0 /\ req[h] = cms /\ h = cms) =>
            \A i \in 1..Len(calls) :
                calls[i] \in {"vision", "completion"} =>
                    \E j \in 1..(i - 1) : calls[j] = "thinking"

\* --------------------------------------------- properties of RefSpec
\* The referenced message has nothing the extraction could take: no text, no
\* embed, no attachment, no sticker, and the default message type.
NoExtractable(r) ==
    /\ r.content = <<>> /\ r.embeds = "none" /\ ~r.attach /\ ~r.stickers
    /\ ~r.system

\* C33: for a fetched referenced message without any extractable content,
\* written by another bot or by a user, the referenced content is the
\* non-empty placeholder and the context joined to the prompt is not empty.
C33_EmptyReferenceGetsSentinel ==
    (rpc = "done" /\ NoExtractable(rmsg)) =>
        refContent = Sentinel /\ refContext # <<>>

\* ------------------------------------------- properties of SplitSpec
\* C16: every chunk produced for a response longer than the limit has
\* between 1 and 2000 characters.
C16_ChunksWithinLimit ==
    \A k \in 1..Len(chunks) :
        Len(chunks[k]) >= 1 /\ Len(chunks[k]) <= ChunkLimit

\* A split finished with a chunk of exactly 2000 characters (no break point
\* was acceptable) and a shorter one.
C16_Witness ==
    /\ spc = "done" /\ Len(chunks) >= 2
    /\ \E k \in 1..Len(chunks) : Len(chunks[k]) = ChunkLimit
    /\ \E k \in 1..Len(chunks) : Len(chunks[k]) < BreakFloor

\* The first position at or after i that holds no whitespace.
RECURSIVE SkipSpace(_, _)
SkipSpace(t, i) ==
    IF i <= Len(t) /\ IsSpace(t[i]) THEN SkipSpace(t, i + 1) ELSE i

\* From position i on, t is chunk k, a run of whitespace, chunk k+1, a run
\* of whitespace, and so on to the last chunk, which ends t.
RECURSIVE Aligned(_, _, _, _)
Aligned(t, cs, k, i) ==
    IF k > Len(cs) THEN i = Len(t) + 1
    ELSE /\ i + Len(cs[k]) - 1 <= Len(t)
         /\ SubSeq(t, i, i + Len(cs[k]) - 1) = cs[k]
         /\ Aligned(t, cs, k + 1,
                    IF k < Len(cs) THEN SkipSpace(t, i + Len(cs[k]))
                    ELSE i + Len(cs[k]))

\* C17: the chunks of a finished split are consecutive pieces of the
\* response in order, and what lies between two of them is whitespace only:
\* their concatenation is the response without the whitespace at the break
\* points.
C17_ChunksRebuildText ==
    spc = "done" => Aligned(text, chunks, 1, 1)

\* A split finished where whitespace was dropped at a sentence break.
C17_Witness ==
    /\ spc = "done" /\ Len(chunks) >= 2
    /\ chunks[1][Len(chunks[1])] = "."
    /\ IsSpace(text[Len(chunks[1]) + 1])

\* ----------------------------------------- properties of DeliverSpec
\* Send call k delivered chunk c.
Carries(k, c) ==
    /\ sends[k].chunk = c /\ sends[k].res = "ok"
    /\ sends[k].op \in {"reply", "send"}
\* The chunks are attempted in their order.
InChunkOrder ==
    \A i, j \in 1..Len(sends) : i < j => sends[i].chunk <= sends[j].chunk

\* C35 as stated: the chunks go out in order, and every chunk after the
\* first that was delivered went out as a reply to the message that carried
\* the chunk before it.
C35_ChunksChainedAsReplies ==
    dkind = "long" =>
        /\ InChunkOrder
        /\ \A i \in 1..Len(sends) :
              (sends[i].chunk > 1 /\ sends[i].res = "ok") =>
                  /\ sends[i].op = "reply"
                  /\ \E k \in 1..(i - 1) :
                        Carries(k, sends[i].chunk - 1)
                        /\ sends[i].target = SentBy(k)

\* C35: the chunks go out in order; every chunk is first attempted as a
\* reply, the first to the request and each later one to the message that
\* carried the chunk before it; a chunk goes out as a channel message only
\* right after its reply failed.
C35_ChunksChainedWithFallback ==
    dkind = "long" =>
        /\ InChunkOrder
        /\ \A i \in 1..Len(sends) :
              /\ (sends[i].chunk >= 1 /\ sends[i].op = "reply") =>
                    IF sends[i].chunk = 1 THEN sends[i].target = Request
                    ELSE \E k \in 1..(i - 1) :
                            Carries(k, sends[i].chunk - 1)
                            /\ sends[i].target = SentBy(k)
              /\ sends[i].op = "send" =>
                    /\ i > 1 /\ sends[i - 1].op = "reply"
                    /\ sends[i - 1].chunk = sends[i].chunk
                    /\ sends[i - 1].res # "ok"

\* Three chunks were delivered, the second as a channel message after its
\* reply failed and the third as a reply to that channel message.
C35_Witness ==
    /\ dkind = "long" /\ dpc = "done" /\ Len(dbodies) = 3
    /\ \E i, j \in 1..Len(sends) :
          /\ Carries(i, 2) /\ sends[i].op = "send"
          /\ Carries(j, 3) /\ sends[j].op = "reply"
          /\ sends[j].target = SentBy(i)

\* Lines 862, 868, 873: the strategies of the short delivery in order.
Strategies ==
    << <<"edit", Status>>, <<"reply", Request>>, <<"send", Channel>> >>

\* C37: the calls of a short delivery are the edit of the status message,
\* the reply to the request and the channel send with the mention prefix,
\* in this order; a call is made only after all calls before it failed; the
\* delivery ends after a success or after the third call, and no exception
\* leaves it.
C37_FallbackOrder ==
    dkind = "short" =>
        /\ Len(sends) <= Len(Strategies)
        /\ \A i \in 1..Len(sends) :
              /\ <<sends[i].op, sends[i].target>> = Strategies[i]
              /\ sends[i].len = dbodies[1]
                                + (IF i = 3 THEN MentionPrefixLen ELSE 0)
              /\ i < Len(sends) => sends[i].res # "ok"
        /\ dpc # "raised"
        /\ dpc = "done" <=>
              /\ sends # <<>>
              /\ sends[Len(sends)].res = "ok" \/ Len(sends) = Len(Strategies)

\* All three strategies failed, the last with an HTTP error, and the
\* delivery ended.
C37_Witness ==
    /\ dkind = "short" /\ dpc = "done" /\ Len(sends) = 3
    /\ sends[1].res = "NotFound" /\ sends[2].res = "Forbidden"
    /\ sends[3].res = "HTTPException"

\* C38: the body of every send call of a delivery has at most 2000
\* characters.
C38_BodiesWithinLimit ==
    \A i \in 1..Len(sends) : sends[i].len <= ChunkLimit

\* ------------------------------------------- properties of ReactSpec
\* C40: a delete of the message reacted to is requested only for a message
\* of the bot, on a reaction of another user with one of the X emojis, and,
\* unless the message is an AI generated image embed, only when the message
\* replies to a message written by the reacting user.
C40_DeleteOnlyByRequester ==
    kpc \in {"delete", "deleted", "kept"} =>
        /\ rx.author = BotUser
        /\ rx.user # BotUser
        /\ rx.emoji \in {"cross_mark", "heavy_multiplication_x",
                         "negative_squared_cross_mark", "x", "X"}
        /\ ~rx.image => rx.ref = rx.user

\* The bot's reply to user A's message was deleted on A's reaction.
C40_Witness ==
    /\ kpc = "deleted" /\ ~rx.image
    /\ rx.user = "A" /\ rx.ref = "A" /\ rx.author = BotUser

\* The window of a split step, the positions (from 1) of its sentence
\* punctuation, of its whitespace and of its spaces, the latest position of
\* a set, and the last tenth of the window: the positions after 1801.
Window(rem) == SubSeq(rem, 1, ChunkLimit)
PunctAt(w) == {i \in 1..Len(w) : w[i] \in {".", "!", "?"}}
WhitespaceAt(w) == {i \in 1..Len(w) : IsSpace(w[i])}
SpaceAt(w) == {i \in 1..Len(w) : w[i] = " "}
Latest(S) == CHOOSE i \in S : \A j \in S : j <= i
LastTenth == (BreakFloor + 2)..ChunkLimit

\* The chunk by the rule as stated: up to and including the latest
\* punctuation when it lies in the last tenth; else up to the latest
\* whitespace of the window; a hard cut only without whitespace.
StatedChunk(rem) ==
    LET w == Window(rem)
    IN  IF PunctAt(w) \cap LastTenth # {}
        THEN SubSeq(w, 1, Latest(PunctAt(w)))
        ELSE IF WhitespaceAt(w) # {}
             THEN SubSeq(w, 1, Latest(WhitespaceAt(w)) - 1)
        ELSE w

\* The rule with the same floor on the word break: up to the latest space
\* when it lies in the last tenth, else a hard cut.
FlooredChunk(rem) ==
    LET w == Window(rem)
    IN  IF PunctAt(w) \cap LastTenth # {}
        THEN SubSeq(w, 1, Latest(PunctAt(w)))
        ELSE IF SpaceAt(w) \cap LastTenth # {}
             THEN SubSeq(w, 1, Latest(SpaceAt(w)) - 1)
        ELSE w

\* C36 as stated: every split step cuts the chunk the stated rule gives.
C36_SplitRuleAsStated ==
    [][(spc = "loop" /\ Len(remaining) > ChunkLimit) =>
          chunks' = Append(chunks, StatedChunk(remaining))]_vars

\* C36: every split step cuts at the latest sentence punctuation of the
\* 2000-character window when it lies in the last tenth of the window; else
\* before the latest space when that lies in the last tenth; else at the
\* limit, whether or not the window has whitespace further left.
C36_SplitRuleWithFloor ==
    [][(spc = "loop" /\ Len(remaining) > ChunkLimit) =>
          chunks' = Append(chunks, FlooredChunk(remaining))]_vars

\* A hard cut at the limit although the window has a space, outside its
\* last tenth.
C36_Witness ==
    /\ chunks # <<>> /\ Len(chunks[1]) = ChunkLimit
    /\ SpaceAt(Window(text)) # {}
    /\ SpaceAt(Window(text)) \cap LastTenth = {}
====
